---- MODULE Spec2Model ----
(***************************************************************************)
(* playr: a terminal audio player (src/src/app.rs, src/src/main.rs).       *)
(*                                                                         *)
(* The model follows App::run: one loop iteration is three steps           *)
(*   tick   (app.rs 109-136)  schedule a track when the sink is empty      *)
(*   render (app.rs 138, ui)  draw; ui trims the play queue (319-321)      *)
(*   event  (app.rs 140-191)  poll for at most one key and dispatch it     *)
(* and the audio device consumes the sink concurrently (SinkFinish).       *)
(* The shuffle draw loop (app.rs 113-123) is a position of its own         *)
(* (pc = "draw"), one step per draw, because it need not terminate.        *)
(*                                                                         *)
(* Option<T> is modelled as a sequence: None = <<>>, Some(x) = <<x>>.      *)
(* Vec / VecDeque indices are the source's 0-based indices; items[i] of    *)
(* the source is songs_items[i + 1] here.                                  *)
(***************************************************************************)
EXTENDS Integers, Sequences, FiniteSets, TLC

VARIABLES
    songs_items,          \* App.songs.items: the catalog (fixed after App::new)
    songs_selected,       \* App.songs.state.selected(): Option<usize>
    queue,                \* App.queue: VecDeque<String>
    looping,              \* App.looping
    shuffle,              \* App.shuffle
    playing,              \* App.playing: Option<String>
    sink,                 \* the sounds pending in the rodio Sink; sink.len() = Len(sink)
    sink_paused,          \* Sink::is_paused()
    sink_volume,          \* Sink::volume(): an f32, as [m, e] = m / 2^e
    previous_or_to_play,  \* the local of the shuffle branch (app.rs 112)
    pc,                   \* position in App::run: tick, draw, render, event, panic, quit
    last                  \* history: the loop step taken last and is_paused() before it

vars == <<songs_items, songs_selected, queue, looping, shuffle, playing, sink,
          sink_paused, sink_volume, previous_or_to_play, pc, last>>

(***************************************************************************)
(* Bounds of the model.                                                    *)
(***************************************************************************)
\* play_selected appends to the sink without limit; the model stops at MaxSink.
MaxSink == 2
\* usize is modelled UsizeBits wide (the list index arithmetic wraps at 2^UsizeBits).
UsizeBits == 3

(***************************************************************************)
(* Option                                                                  *)
(***************************************************************************)
None == <<>>
Some(x) == <<x>>
IsSome(o) == o # <<>>
Unwrap(o) == o[1]
UnwrapOr(o, d) == IF o = <<>> THEN d ELSE o[1]

(***************************************************************************)
(* Strings: the file names of the model and str::eq_ignore_ascii_case.     *)
(***************************************************************************)
ToAsciiLowercase(s) == IF s = "A" THEN "a" ELSE IF s = "B" THEN "b" ELSE s

EqIgnoreAsciiCase(s, t) == ToAsciiLowercase(s) = ToAsciiLowercase(t)

\* The directory listings App::new may find: none (or no directory), one file, two
\* files whose names differ only in case, two and three files; "x" is a file that
\* is no audio file.
Catalogs == { <<>>, <<"a">>, <<"a", "A">>, <<"a", "b">>, <<"a", "b", "x">> }

\* Every name, the empty one included, opens and decodes.
OpenableAny(song) == TRUE

\* File::open("playrsources/<song>") and Decoder::new both succeed: the file is
\* an audio file. "" names the directory itself, which never decodes.
Openable(song) == song \in {"a", "A", "b"}

(***************************************************************************)
(* usize arithmetic. A subtraction that underflows panics when the build   *)
(* checks overflow (debug) and wraps when it does not (release): both      *)
(* outcomes are kept.                                                      *)
(***************************************************************************)
RECURSIVE Pow2(_)
Pow2(n) == IF n = 0 THEN 1 ELSE 2 * Pow2(n - 1)

UsizeModulus == Pow2(UsizeBits)

UsizeSub(a, b) ==
    IF a >= b
    THEN { [panic |-> FALSE, v |-> a - b] }
    ELSE { [panic |-> TRUE, v |-> 0],
           [panic |-> FALSE, v |-> (a - b) % UsizeModulus] }

(***************************************************************************)
(* StatefulList<T> (app.rs 19-62)                                          *)
(***************************************************************************)
with_items(items) == IF Len(items) = 0 THEN None ELSE Some(0)

\* A next() that stops at the last index instead of wrapping to 0.
StatefulList_next_nowrap(sel, len) ==
    IF IsSome(sel)
    THEN { [panic |-> r.panic,
            sel   |-> IF r.panic \/ Unwrap(sel) >= r.v THEN sel
                      ELSE Some(Unwrap(sel) + 1)] : r \in UsizeSub(len, 1) }
    ELSE { [panic |-> FALSE, sel |-> Some(0)] }

\* The outcomes of next(): the new selection, or a panic in self.items.len() - 1.
StatefulList_next(sel, len) ==
    IF IsSome(sel)
    THEN { [panic |-> r.panic,
            sel   |-> IF r.panic THEN sel
                      ELSE IF Unwrap(sel) >= r.v THEN Some(0)
                      ELSE Some(Unwrap(sel) + 1)] : r \in UsizeSub(len, 1) }
    ELSE { [panic |-> FALSE, sel |-> Some(0)] }

\* The outcomes of previous(); len - 1 is evaluated only when i == 0.
StatefulList_previous(sel, len) ==
    IF IsSome(sel)
    THEN IF Unwrap(sel) = 0
         THEN { [panic |-> r.panic,
                 sel   |-> IF r.panic THEN sel ELSE Some(r.v)] : r \in UsizeSub(len, 1) }
         ELSE { [panic |-> FALSE, sel |-> Some(Unwrap(sel) - 1)] }
    ELSE { [panic |-> FALSE, sel |-> Some(0)] }

\* App::get_selected: state.selected().map(|ind| items.get(ind).cloned()).flatten()
get_selected(items, sel) ==
    IF IsSome(sel) /\ Unwrap(sel) < Len(items)
    THEN Some(items[Unwrap(sel) + 1])
    ELSE None

(***************************************************************************)
(* f32, for the sink's volume. A value is [m, e], meaning m / 2^e with a   *)
(* 24-bit mantissa 2^23 <= m < 2^24; every operation rounds to nearest,    *)
(* ties to even, as IEEE 754 does.                                         *)
(***************************************************************************)
RoundHalfEven(num, den) ==
    LET q == num \div den
        r == num % den
    IN  IF 2 * r < den THEN q
        ELSE IF 2 * r > den THEN q + 1
        ELSE IF q % 2 = 0 THEN q ELSE q + 1

\* The least e with num * 2^e >= 2^23 * den.
RECURSIVE F32Exponent(_, _, _)
F32Exponent(num, den, e) ==
    IF num * Pow2(e) >= Pow2(23) * den THEN e ELSE F32Exponent(num, den, e + 1)

\* (n as f32) / 100.0 for a usize n in 1 .. 2^24.
F32Div100(n) ==
    LET e == F32Exponent(n, 100, 0)
        m == RoundHalfEven(n * Pow2(e), 100)
    IN  IF m = Pow2(24) THEN [m |-> Pow2(23), e |-> e - 1] ELSE [m |-> m, e |-> e]

\* The f32 that ((usize::MAX - 9) as f32 / 100.0) yields after a wrapped
\* subtraction: 2^64 / 100, far above every percentage.
F32Wrapped == [m |-> 10737418, e |-> 0 - 34]

\* (v * 100.0) as usize: the product rounded to f32, then truncated; a value
\* of 2^64 or more saturates, which is reported as saturated |-> TRUE.
F32Mul100AsUsize(v) ==
    IF v.e < 0
    THEN [saturated |-> TRUE, n |-> 0]
    ELSE LET p == 100 * v.m
             k == IF p < Pow2(30) THEN 6 ELSE 7
             r == RoundHalfEven(p, Pow2(k))
         IN  [saturated |-> FALSE, n |-> r \div Pow2(v.e - k)]

Min(a, b) == IF a < b THEN a ELSE b
Max(a, b) == IF a > b THEN a ELSE b

\* The outcomes of ((volume * 100.0) as usize + 10).min(200) as f32 / 100.0.
volume_up(v) ==
    LET cur == F32Mul100AsUsize(v)
    IN  IF cur.saturated
        THEN { [panic |-> TRUE, v |-> v], [panic |-> FALSE, v |-> F32Div100(9)] }
        ELSE { [panic |-> FALSE, v |-> F32Div100(Min(cur.n + 10, 200))] }

\* A volume_down without .max(10).
volume_down_unclamped(v) ==
    LET cur == F32Mul100AsUsize(v)
    IN  IF ~cur.saturated /\ cur.n > 10
        THEN { [panic |-> FALSE, v |-> F32Div100(cur.n - 10)] }
        ELSE { [panic |-> TRUE, v |-> v], [panic |-> FALSE, v |-> F32Wrapped] }

\* The outcomes of ((volume * 100.0) as usize - 10).max(10) as f32 / 100.0.
volume_down(v) ==
    LET cur == F32Mul100AsUsize(v)
    IN  IF cur.saturated
        THEN { [panic |-> FALSE, v |-> F32Wrapped] }
        ELSE IF cur.n >= 10
        THEN { [panic |-> FALSE, v |-> F32Div100(Max(cur.n - 10, 10))] }
        ELSE { [panic |-> TRUE, v |-> v], [panic |-> FALSE, v |-> F32Wrapped] }

\* The percentage the status block shows: (volume * 100.0) as usize (app.rs 311).
VolumePercent == F32Mul100AsUsize(sink_volume).n

(***************************************************************************)
(* The state after main (main.rs 14-24) and App::new (app.rs 76-98): a     *)
(* fresh Sink is empty, not paused, at volume 1.0.                         *)
(***************************************************************************)
Init ==
    /\ songs_items \in Catalogs
    /\ songs_selected = with_items(songs_items)
    /\ queue = <<>>
    /\ looping = FALSE
    /\ shuffle = FALSE
    /\ playing = None
    /\ sink = <<>>
    /\ sink_paused = FALSE
    /\ sink_volume = F32Div100(100)
    /\ previous_or_to_play = ""
    /\ pc = "tick"
    /\ last = [op |-> "new", paused |-> FALSE]

Step(op) == last' = [op |-> op, paused |-> sink_paused]

\* A play that appends the song and does not record it as playing.
play_no_record(song, to) ==
    IF Openable(song)
    THEN /\ sink' = Append(sink, song)
         /\ playing' = playing
         /\ pc' = to
    ELSE /\ pc' = "panic"
         /\ UNCHANGED <<sink, playing>>

(***************************************************************************)
(* App::play (app.rs 198-203): open and decode the file (a failure panics  *)
(* in unwrap, before anything is appended), append it to the sink, record  *)
(* it as playing. The loop goes on at `to`.                                *)
(***************************************************************************)
play(song, to) ==
    IF Openable(song)
    THEN /\ sink' = Append(sink, song)
         /\ playing' = Some(song)
         /\ pc' = to
    ELSE /\ pc' = "panic"
         /\ UNCHANGED <<sink, playing>>

(***************************************************************************)
(* The tick (app.rs 109-136).                                              *)
(***************************************************************************)
\* A tick that pops the queue although the sink is not empty.
TickBusyPops ==
    /\ pc = "tick"
    /\ Len(sink) # 0
    /\ queue' = IF queue = <<>> THEN queue ELSE Tail(queue)
    /\ pc' = "render"
    /\ Step("tick_busy")
    /\ UNCHANGED <<songs_items, songs_selected, looping, shuffle, playing,
                   sink, sink_paused, sink_volume, previous_or_to_play>>

\* sink.len() != 0: nothing is scheduled.
TickBusy ==
    /\ pc = "tick"
    /\ Len(sink) # 0
    /\ pc' = "render"
    /\ Step("tick_busy")
    /\ UNCHANGED <<songs_items, songs_selected, queue, looping, shuffle, playing,
                   sink, sink_paused, sink_volume, previous_or_to_play>>

\* app.rs 111-112: the shuffle branch is entered; the draw loop follows.
TickShuffle ==
    /\ pc = "tick"
    /\ Len(sink) = 0
    /\ shuffle
    /\ previous_or_to_play' = UnwrapOr(playing, "")
    /\ pc' = "draw"
    /\ Step("tick_shuffle")
    /\ UNCHANGED <<songs_items, songs_selected, queue, looping, shuffle, playing,
                   sink, sink_paused, sink_volume>>

\* app.rs 114-116 and 124: a catalog of at most one entry leaves the loop at once
\* and plays previous_or_to_play as it stands.
DrawBreak ==
    /\ pc = "draw"
    /\ Len(songs_items) <= 1
    /\ play(previous_or_to_play, "render")
    /\ previous_or_to_play' = ""
    /\ Step("shuffle")
    /\ UNCHANGED <<songs_items, songs_selected, queue, looping, shuffle,
                   sink_paused, sink_volume>>

\* A comparison that takes every draw.
AcceptsAny(random_song, previous) == TRUE

\* The comparison of app.rs 118: the drawn song is taken when it is not the
\* previous one, ignoring ASCII case.
Accepts(random_song, previous) == ~EqIgnoreAsciiCase(random_song, previous)

\* app.rs 117-124: one draw of items.choose(&mut rng) that is accepted; the
\* loop is left and the song is played.
DrawAccept ==
    /\ pc = "draw"
    /\ Len(songs_items) > 1
    /\ \E i \in 0 .. Len(songs_items) - 1 :
          /\ Accepts(songs_items[i + 1], previous_or_to_play)
          /\ play(songs_items[i + 1], "render")
    /\ previous_or_to_play' = ""
    /\ Step("shuffle")
    /\ UNCHANGED <<songs_items, songs_selected, queue, looping, shuffle,
                   sink_paused, sink_volume>>

\* app.rs 117-122: one draw that is rejected; the loop draws again.
DrawReject ==
    /\ pc = "draw"
    /\ Len(songs_items) > 1
    /\ \E i \in 0 .. Len(songs_items) - 1 :
          ~Accepts(songs_items[i + 1], previous_or_to_play)
    /\ UNCHANGED vars

\* A loop branch that is never taken.
LoopNever == FALSE

\* A loop branch that gives way to a waiting queue.
LoopAfterQueue == looping /\ IsSome(playing) /\ queue = <<>>

\* The condition of app.rs 125.
LoopApplies == looping /\ IsSome(playing)

\* app.rs 125-127: replay the current song.
TickLoop ==
    /\ pc = "tick"
    /\ Len(sink) = 0
    /\ ~shuffle
    /\ LoopApplies
    /\ play(Unwrap(playing), "render")
    /\ Step("tick_loop")
    /\ UNCHANGED <<songs_items, songs_selected, queue, looping, shuffle,
                   sink_paused, sink_volume, previous_or_to_play>>

\* A pop that takes the back of the queue instead of the front.
pop_back(q) == [next |-> q[Len(q)], rest |-> SubSeq(q, 1, Len(q) - 1)]

\* VecDeque::pop_front on a non-empty queue: the element and what is left.
pop_front(q) == [next |-> Head(q), rest |-> Tail(q)]

\* app.rs 129-131: pop the front of the queue and play it (131 stores the
\* same song in playing once more).
TickQueue ==
    /\ pc = "tick"
    /\ Len(sink) = 0
    /\ ~shuffle
    /\ ~LoopApplies
    /\ queue # <<>>
    /\ queue' = pop_front(queue).rest
    /\ play(pop_front(queue).next, "render")
    /\ Step("tick_queue")
    /\ UNCHANGED <<songs_items, songs_selected, looping, shuffle,
                   sink_paused, sink_volume, previous_or_to_play>>

\* app.rs 132-134: the queue is empty.
TickSilence ==
    /\ pc = "tick"
    /\ Len(sink) = 0
    /\ ~shuffle
    /\ ~LoopApplies
    /\ queue = <<>>
    /\ playing' = None
    /\ pc' = "render"
    /\ Step("tick_silence")
    /\ UNCHANGED <<songs_items, songs_selected, queue, looping, shuffle,
                   sink, sink_paused, sink_volume, previous_or_to_play>>

(***************************************************************************)
(* terminal.draw(|f| ui(f, self)) (app.rs 138, 226-326): the only state    *)
(* ui changes is the queue (app.rs 319-321).                               *)
(***************************************************************************)
\* A trim that drops from the back of the queue.
TrimQueueBack(q, sink_len) ==
    IF Len(q) > sink_len THEN SubSeq(q, 1, sink_len) ELSE q

RECURSIVE TrimQueue(_, _)
TrimQueue(q, sink_len) ==
    IF Len(q) > sink_len THEN TrimQueue(Tail(q), sink_len) ELSE q

Render ==
    /\ pc = "render"
    /\ queue' = TrimQueue(queue, Len(sink))
    /\ pc' = "event"
    /\ Step(IF Len(queue) > Len(sink) THEN "render_trim" ELSE "render")
    /\ UNCHANGED <<songs_items, songs_selected, looping, shuffle, playing,
                   sink, sink_paused, sink_volume, previous_or_to_play>>

(***************************************************************************)
(* The event step (app.rs 140-191): poll, and dispatch at most one key.    *)
(***************************************************************************)
\* poll times out, or the event is no key press, or the key has no binding.
NoKey ==
    /\ pc = "event"
    /\ pc' = "tick"
    /\ Step("none")
    /\ UNCHANGED <<songs_items, songs_selected, queue, looping, shuffle, playing,
                   sink, sink_paused, sink_volume, previous_or_to_play>>

\* KeyCode::Char('q'): run returns and main ends.
KeyQ ==
    /\ pc = "event"
    /\ pc' = "quit"
    /\ Step("q")
    /\ UNCHANGED <<songs_items, songs_selected, queue, looping, shuffle, playing,
                   sink, sink_paused, sink_volume, previous_or_to_play>>

\* KeyCode::Down => self.songs.next()
KeyDown ==
    /\ pc = "event"
    /\ \E r \in StatefulList_next(songs_selected, Len(songs_items)) :
          /\ songs_selected' = r.sel
          /\ pc' = IF r.panic THEN "panic" ELSE "tick"
    /\ Step("Down")
    /\ UNCHANGED <<songs_items, queue, looping, shuffle, playing,
                   sink, sink_paused, sink_volume, previous_or_to_play>>

\* KeyCode::Up => self.songs.previous()
KeyUp ==
    /\ pc = "event"
    /\ \E r \in StatefulList_previous(songs_selected, Len(songs_items)) :
          /\ songs_selected' = r.sel
          /\ pc' = IF r.panic THEN "panic" ELSE "tick"
    /\ Step("Up")
    /\ UNCHANGED <<songs_items, queue, looping, shuffle, playing,
                   sink, sink_paused, sink_volume, previous_or_to_play>>

\* KeyCode::Enter without SHIFT: play_selected (app.rs 205-209), then sink.play().
KeyEnter ==
    /\ pc = "event"
    /\ LET selected == get_selected(songs_items, songs_selected)
       IN  IF IsSome(selected)
           THEN /\ Len(sink) < MaxSink
                /\ play(Unwrap(selected), "tick")
                /\ sink_paused' = IF Openable(Unwrap(selected)) THEN FALSE ELSE sink_paused
           ELSE /\ sink_paused' = FALSE
                /\ pc' = "tick"
                /\ UNCHANGED <<sink, playing>>
    /\ Step("Enter")
    /\ UNCHANGED <<songs_items, songs_selected, queue, looping, shuffle,
                   sink_volume, previous_or_to_play>>

\* App::queue_selected (app.rs 211-215)
queue_selected(q, selected) ==
    IF IsSome(selected) THEN Append(q, Unwrap(selected)) ELSE q

\* KeyCode::Enter with SHIFT: queue_selected, then sink.play().
KeyShiftEnter ==
    /\ pc = "event"
    /\ queue' = queue_selected(queue, get_selected(songs_items, songs_selected))
    /\ sink_paused' = FALSE
    /\ pc' = "tick"
    /\ Step("ShiftEnter")
    /\ UNCHANGED <<songs_items, songs_selected, looping, shuffle, playing,
                   sink, sink_volume, previous_or_to_play>>

\* KeyCode::Char(' '): toggle pause.
KeySpace ==
    /\ pc = "event"
    /\ sink_paused' = ~sink_paused
    /\ pc' = "tick"
    /\ Step("Space")
    /\ UNCHANGED <<songs_items, songs_selected, queue, looping, shuffle, playing,
                   sink, sink_volume, previous_or_to_play>>

\* KeyCode::Char('='): toggle looping.
KeyEquals ==
    /\ pc = "event"
    /\ looping' = ~looping
    /\ pc' = "tick"
    /\ Step("=")
    /\ UNCHANGED <<songs_items, songs_selected, queue, shuffle, playing,
                   sink, sink_paused, sink_volume, previous_or_to_play>>

\* A skip that stops the sink and leaves out sink.play().
KeyBackspaceNoPlay ==
    /\ pc = "event"
    /\ sink' = <<>>
    /\ pc' = "tick"
    /\ Step("Backspace")
    /\ UNCHANGED <<songs_items, songs_selected, queue, looping, shuffle, playing,
                   sink_paused, sink_volume, previous_or_to_play>>

\* KeyCode::Backspace: sink.stop() drops everything pending; sink.play() resumes.
KeyBackspace ==
    /\ pc = "event"
    /\ sink' = <<>>
    /\ sink_paused' = FALSE
    /\ pc' = "tick"
    /\ Step("Backspace")
    /\ UNCHANGED <<songs_items, songs_selected, queue, looping, shuffle, playing,
                   sink_volume, previous_or_to_play>>

\* KeyCode::Tab: toggle shuffle.
KeyTab ==
    /\ pc = "event"
    /\ shuffle' = ~shuffle
    /\ pc' = "tick"
    /\ Step("Tab")
    /\ UNCHANGED <<songs_items, songs_selected, queue, looping, playing,
                   sink, sink_paused, sink_volume, previous_or_to_play>>

\* KeyCode::Right: volume up.
KeyRight ==
    /\ pc = "event"
    /\ \E r \in volume_up(sink_volume) :
          /\ sink_volume' = r.v
          /\ pc' = IF r.panic THEN "panic" ELSE "tick"
    /\ Step("Right")
    /\ UNCHANGED <<songs_items, songs_selected, queue, looping, shuffle, playing,
                   sink, sink_paused, previous_or_to_play>>

\* KeyCode::Left: volume down.
KeyLeft ==
    /\ pc = "event"
    /\ \E r \in volume_down(sink_volume) :
          /\ sink_volume' = r.v
          /\ pc' = IF r.panic THEN "panic" ELSE "tick"
    /\ Step("Left")
    /\ UNCHANGED <<songs_items, songs_selected, queue, looping, shuffle, playing,
                   sink, sink_paused, previous_or_to_play>>

(***************************************************************************)
(* The audio device: the sound at the front of the sink ends, unless the   *)
(* sink is paused. It runs beside the loop, at any position of it.         *)
(***************************************************************************)
SinkFinish ==
    /\ pc \notin {"panic", "quit"}
    /\ sink # <<>>
    /\ ~sink_paused
    /\ sink' = Tail(sink)
    /\ UNCHANGED <<songs_items, songs_selected, queue, looping, shuffle, playing,
                   sink_paused, sink_volume, previous_or_to_play, pc, last>>

Tick == TickBusy \/ TickShuffle \/ TickLoop \/ TickQueue \/ TickSilence

Draw == DrawBreak \/ DrawAccept \/ DrawReject

Next ==
    \/ TickBusy \/ TickShuffle \/ TickLoop \/ TickQueue \/ TickSilence
    \/ DrawBreak \/ DrawAccept \/ DrawReject
    \/ Render
    \/ NoKey \/ KeyQ \/ KeyDown \/ KeyUp \/ KeyEnter \/ KeyShiftEnter \/ KeySpace
    \/ KeyEquals \/ KeyBackspace \/ KeyTab \/ KeyRight \/ KeyLeft
    \/ SinkFinish

Spec == Init /\ [][Next]_vars

(***************************************************************************)
(* The volume keys read and write sink_volume only, and nothing else reads *)
(* it: the reachable states of Spec are the product of those of Player     *)
(* (every step but the volume keys) and the volumes VolumeControl reaches. *)
(* The claims are checked on the two factors.                              *)
(***************************************************************************)
PlayerNext ==
    \/ TickBusy \/ TickShuffle \/ TickLoop \/ TickQueue \/ TickSilence
    \/ DrawBreak \/ DrawAccept \/ DrawReject
    \/ Render
    \/ NoKey \/ KeyQ \/ KeyDown \/ KeyUp \/ KeyEnter \/ KeyShiftEnter \/ KeySpace
    \/ KeyEquals \/ KeyBackspace \/ KeyTab
    \/ SinkFinish

Player == Init /\ [][PlayerNext]_vars

VolumeNext ==
    \/ TickSilence \/ Render
    \/ NoKey \/ KeyQ \/ KeySpace \/ KeyRight \/ KeyLeft

VolumeControl == Init /\ [][VolumeNext]_vars

(***************************************************************************)
(* Steps of the loop, told by the positions before and after.              *)
(***************************************************************************)
\* A tick that found the sink empty has just run its first step.
TickAtZero == pc = "tick" /\ pc' # "tick" /\ Len(sink) = 0

\* The position of a song's name in the catalog, 0-based.
PositionsOf(song) == { i \in 0 .. Len(songs_items) - 1 : songs_items[i + 1] = song }

(***************************************************************************)
(* C1. With shuffle and looping off, a tick that finds the sink empty pops *)
(* the front of the queue, hands it to the sink (the sink then holds that  *)
(* track alone) and sets now-playing to it; with the queue empty it sets   *)
(* now-playing to None and hands nothing over. Tracks leave the queue in   *)
(* the order they were queued. A front track whose file does not decode is *)
(* popped all the same and the hand-off fails in play.                     *)
(***************************************************************************)
C1_QueueTickPlaysFront ==
    [][ (TickAtZero /\ ~shuffle /\ ~looping) =>
          IF queue # <<>>
          THEN /\ queue' = Tail(queue)
               /\ IF Openable(Head(queue))
                  THEN /\ sink' = <<Head(queue)>>
                       /\ playing' = Some(Head(queue))
                       /\ pc' = "render"
                  ELSE /\ sink' = sink /\ playing' = playing /\ pc' = "panic"
          ELSE /\ playing' = None
               /\ sink' = <<>>
               /\ queue' = <<>>
               /\ pc' = "render" ]_vars

\* A was queued before B, both flags are off, and the tick has just played A
\* with B still waiting.
C1_Witness ==
    /\ last.op = "tick_queue" /\ pc = "render"
    /\ ~shuffle /\ ~looping
    /\ playing = Some("a") /\ sink = <<"a">> /\ queue = <<"b">>

(***************************************************************************)
(* C2. With looping on, shuffle off and now-playing = A, a tick that finds *)
(* the sink empty hands A to the sink again, leaves now-playing = A and    *)
(* leaves the queue as it is, whatever the queue holds.                    *)
(***************************************************************************)
C2_LoopReplaysCurrent ==
    [][ (TickAtZero /\ looping /\ ~shuffle /\ IsSome(playing)) =>
          /\ sink' = <<Unwrap(playing)>>
          /\ playing' = playing
          /\ queue' = queue
          /\ looping' /\ ~shuffle'
          /\ pc' = "render" ]_vars

\* The loop tick has replayed "a" although "b" waits in the queue.
C2_Witness ==
    /\ last.op = "tick_loop" /\ pc = "render"
    /\ looping /\ ~shuffle
    /\ playing = Some("a") /\ sink = <<"a">> /\ queue = <<"b">>

(***************************************************************************)
(* C3. With shuffle on and a catalog of two or more entries, the track     *)
(* the draw loop hands to the sink is a catalog entry that is at no        *)
(* catalog position of the track that was now-playing before the tick.     *)
(***************************************************************************)
C3_ShuffleNeverRepeatsPosition ==
    [][ (pc = "draw" /\ Len(songs_items) >= 2 /\ sink' # sink) =>
          \E i \in 0 .. Len(songs_items) - 1 :
              /\ sink' = Append(sink, songs_items[i + 1])
              /\ playing' = Some(songs_items[i + 1])
              /\ IsSome(playing) => i \notin PositionsOf(Unwrap(playing)) ]_vars

\* The draw loop has just handed over a track of a three-entry catalog.
C3_Witness ==
    /\ last.op = "shuffle" /\ pc = "render" /\ shuffle
    /\ Len(songs_items) = 3
    /\ playing = Some("b") /\ sink = <<"b">>

(***************************************************************************)
(* C4. The shuffle draw loop terminates under fair draws: wherever the     *)
(* loop stands, it can be left, either at once (a catalog of at most one   *)
(* entry) or by a draw that is accepted. A loop state no draw leaves is    *)
(* drawn from forever.                                                     *)
(***************************************************************************)
C4_DrawLoopCanExit == (pc = "draw") => ENABLED (DrawBreak \/ DrawAccept)

(***************************************************************************)
(* C5. play_selected replaces the sink's content: the sink never holds     *)
(* more than one track, and right after play_selected with an item         *)
(* selected (and its file decoding) the sink holds that track alone and    *)
(* now-playing is that track.                                              *)
(***************************************************************************)
PlaySelectedStep == pc = "event" /\ last'.op = "Enter" /\ pc' = "tick"

C5_PlaySelectedReplacesSink ==
    [][ /\ Len(sink) <= 1
        /\ Len(sink') <= 1
        /\ (PlaySelectedStep /\ IsSome(get_selected(songs_items, songs_selected))) =>
              /\ sink' = <<Unwrap(get_selected(songs_items, songs_selected))>>
              /\ playing' = get_selected(songs_items, songs_selected) ]_vars

(***************************************************************************)
(* C6. The queue command with an item selected appends that item to the    *)
(* back of the queue and leaves playback as it was: now-playing, the       *)
(* sink's content and the sink's paused state are unchanged.               *)
(***************************************************************************)
QueueSelectedStep == pc = "event" /\ last'.op = "ShiftEnter"

C6_QueueLeavesPlayback ==
    [][ (QueueSelectedStep /\ IsSome(get_selected(songs_items, songs_selected))) =>
          /\ queue' = Append(queue, Unwrap(get_selected(songs_items, songs_selected)))
          /\ playing' = playing
          /\ sink' = sink
          /\ sink_paused' = sink_paused ]_vars

(***************************************************************************)
(* C7. After skip, in any state and also while the sink is paused, the     *)
(* sink is empty and not paused and the loop is at the tick; the tick that *)
(* follows finds the sink empty and resolves by the active policy:         *)
(* shuffle, else loop, else the queue.                                     *)
(***************************************************************************)
SkipStep == pc = "event" /\ last'.op = "Backspace"

C7_SkipThenTickResolves ==
    [][ /\ SkipStep => (sink' = <<>> /\ ~sink_paused' /\ pc' = "tick")
        /\ (pc = "tick" /\ last.op = "Backspace" /\ pc' # "tick") =>
              /\ Len(sink) = 0
              /\ ~sink_paused /\ ~sink_paused'
              /\ last'.op = IF shuffle THEN "tick_shuffle"
                            ELSE IF looping /\ IsSome(playing) THEN "tick_loop"
                            ELSE IF queue # <<>> THEN "tick_queue"
                            ELSE "tick_silence" ]_vars

\* skip was issued while the sink was paused with a track set, and a queued
\* track waits for the tick that follows.
C7_Witness ==
    /\ pc = "tick" /\ last.op = "Backspace" /\ last.paused
    /\ IsSome(playing) /\ queue # <<>>
    /\ sink = <<>> /\ ~sink_paused

(***************************************************************************)
(* C8. The volume, read as the percentage (volume * 100.0) as usize, is a  *)
(* multiple of 10 in 10 .. 200 after any sequence of volume keys;          *)
(* volume_up adds 10 and clamps at 200, volume_down subtracts 10 and       *)
(* clamps at 10; the subtraction never underflows and neither key panics.  *)
(***************************************************************************)
VolumeInRange(p) == p >= 10 /\ p <= 200 /\ p % 10 = 0

C8_VolumeStepsAndClamps ==
    [][ /\ VolumeInRange(VolumePercent)
        /\ VolumeInRange(VolumePercent')
        /\ ~F32Mul100AsUsize(sink_volume').saturated
        /\ (pc = "event" /\ last'.op = "Right") =>
              /\ VolumePercent' = Min(VolumePercent + 10, 200)
              /\ pc' = "tick"
        /\ (pc = "event" /\ last'.op = "Left") =>
              /\ VolumePercent >= 10
              /\ VolumePercent' = Max(VolumePercent - 10, 10)
              /\ pc' = "tick" ]_vars

\* volume_down has run and the volume stands at the lower clamp.
C8_Witness == pc = "tick" /\ last.op = "Left" /\ VolumePercent = 10

(***************************************************************************)
(* C9. The selected index is None exactly when the item sequence is empty, *)
(* and otherwise an index below its length, after any sequence of next and *)
(* previous.                                                               *)
(***************************************************************************)
C9_SelectionValid ==
    /\ (songs_selected = None) <=> (Len(songs_items) = 0)
    /\ IsSome(songs_selected) => Unwrap(songs_selected) < Len(songs_items)

(***************************************************************************)
(* C10. On an empty item sequence next and previous never fail (no         *)
(* underflow of len - 1, no panic) and selected returns None.              *)
(***************************************************************************)
C10_EmptyListNeverFails ==
    [][ (Len(songs_items) = 0 /\ pc = "event" /\ last'.op \in {"Down", "Up"}) =>
          /\ pc' # "panic"
          /\ get_selected(songs_items, songs_selected') = None ]_vars

(***************************************************************************)
(* C11. For a non-empty item sequence and a valid selected index i, next   *)
(* then previous leaves the selection at i, and so does previous then      *)
(* next; neither fails. The wraparound ends i = 0 and i = len - 1 and the  *)
(* single-item sequence are among the selections reached.                  *)
(***************************************************************************)
RoundTrips(sel, len) ==
    /\ \A r \in StatefulList_next(sel, len) :
          /\ ~r.panic
          /\ \A b \in StatefulList_previous(r.sel, len) : ~b.panic /\ b.sel = sel
    /\ \A r \in StatefulList_previous(sel, len) :
          /\ ~r.panic
          /\ \A b \in StatefulList_next(r.sel, len) : ~b.panic /\ b.sel = sel

C11_NextPreviousRoundTrip ==
    (Len(songs_items) >= 1 /\ IsSome(songs_selected)
        /\ Unwrap(songs_selected) < Len(songs_items)) =>
       RoundTrips(songs_selected, Len(songs_items))

\* next has just wrapped from the last index of a three-item list to 0.
C11_Witness ==
    /\ last.op = "Down" /\ pc = "tick"
    /\ Len(songs_items) = 3 /\ songs_selected = Some(0)

(***************************************************************************)
(* C12. A tick that finds sink occupancy above 0 changes nothing, whatever *)
(* the shuffle and looping flags: now-playing, the queue, the flags, the   *)
(* sink's content and paused state and the selection stay as they were,    *)
(* and the loop goes on to the render pass.                                *)
(***************************************************************************)
C12_BusyTickChangesNothing ==
    [][ (pc = "tick" /\ pc' # "tick" /\ Len(sink) > 0) =>
          /\ UNCHANGED <<playing, queue, looping, shuffle, sink, sink_paused,
                         songs_items, songs_selected, sink_volume>>
          /\ pc' = "render" ]_vars

\* A busy tick has run with both flags on and a track waiting in the queue.
C12_Witness ==
    /\ last.op = "tick_busy" /\ pc = "render"
    /\ shuffle /\ looping
    /\ queue # <<>> /\ sink # <<>>

(***************************************************************************)
(* C13. With shuffle on and a catalog of 0 or 1 entries, a tick that finds *)
(* the sink empty schedules no track: the draw loop hands nothing to the   *)
(* sink, whether now-playing is None or Some.                              *)
(***************************************************************************)
C13_SmallCatalogSchedulesNothing ==
    [][ (pc = "draw" /\ Len(songs_items) <= 1) =>
          (sink' = sink /\ playing' = playing) ]_vars

(***************************************************************************)
(* C14. If now-playing is Some(t), t is the track handed to the sink most  *)
(* recently. now-playing starts as None; every step that hands a track to  *)
(* the sink sets now-playing to that track, and no step sets now-playing   *)
(* to a track without handing that track to the sink.                      *)
(***************************************************************************)
C14_PlayingIsLastHanded ==
    [][ /\ Len(sink') > Len(sink) =>
              /\ IsSome(playing')
              /\ sink' = Append(sink, Unwrap(playing'))
        /\ (playing' # playing /\ IsSome(playing')) =>
              sink' = Append(sink, Unwrap(playing')) ]_vars

\* play_selected has handed "b" over while "a" was still pending.
C14_Witness ==
    /\ last.op = "Enter" /\ pc = "tick"
    /\ sink = <<"a", "b">> /\ playing = Some("b")

(***************************************************************************)
(* C15. Every render pass trims the queue from the front until its length  *)
(* is at most the sink occupancy read in that pass: the queue it displays  *)
(* is the longest tail of the queue before that is no longer than the      *)
(* occupancy, in the same order.                                           *)
(***************************************************************************)
IsTailOf(t, q) ==
    Len(t) <= Len(q) /\ t = SubSeq(q, Len(q) - Len(t) + 1, Len(q))

C15_RenderTrimsFront ==
    [][ (pc = "render" /\ pc' = "event") =>
          /\ Len(queue') <= Len(sink)
          /\ Len(queue') = Min(Len(queue), Len(sink))
          /\ IsTailOf(queue', queue) ]_vars

\* A render pass has trimmed the queue and one entry is left to display.
C15_Witness ==
    /\ last.op = "render_trim" /\ pc = "event"
    /\ Len(queue) = 1 /\ Len(sink) = 1

(***************************************************************************)
(* C16. At a tick that finds the sink empty the policy is taken in the     *)
(* order shuffle, loop, queue: with shuffle on (looping on or off) the     *)
(* draw loop resolves the track and neither the replay nor the pop is      *)
(* done; the replay is done exactly when shuffle is off, looping is on and *)
(* now-playing is Some; the queue is popped, or now-playing cleared, only  *)
(* when neither applies.                                                   *)
(***************************************************************************)
C16_PolicyPrecedence ==
    [][ TickAtZero =>
          IF shuffle
          THEN /\ pc' = "draw"
               /\ UNCHANGED <<sink, playing, queue>>
          ELSE IF looping /\ IsSome(playing)
          THEN /\ sink' = <<Unwrap(playing)>>
               /\ UNCHANGED <<playing, queue>>
          ELSE IF queue # <<>>
          THEN /\ queue' = Tail(queue)
               /\ sink' = sink \/ sink' = <<Head(queue)>>
          ELSE /\ playing' = None
               /\ UNCHANGED <<sink, queue>> ]_vars

\* The tick has entered the shuffle branch with looping on and a track set.
C16_Witness ==
    /\ last.op = "tick_shuffle" /\ pc = "draw"
    /\ shuffle /\ looping /\ IsSome(playing) /\ queue # <<>>

(***************************************************************************)
(* C17. When handing track T to the sink fails (its file does not open or  *)
(* decode), only that attempt fails: now-playing is not set to T and the   *)
(* loop goes on, so that later ticks and commands can run. Stated for the  *)
(* queue tick and for play_selected.                                       *)
(***************************************************************************)
C17_FailedPlayIsRecoverable ==
    [][ /\ (pc = "tick" /\ last'.op = "tick_queue" /\ ~Openable(Head(queue))) =>
              /\ playing' # Some(Head(queue))
              /\ pc' = "render"
        /\ (pc = "event" /\ last'.op = "Enter"
              /\ IsSome(get_selected(songs_items, songs_selected))
              /\ ~Openable(Unwrap(get_selected(songs_items, songs_selected)))) =>
              /\ playing' # get_selected(songs_items, songs_selected)
              /\ pc' = "tick" ]_vars

(***************************************************************************)
(* Playback from the queue alone: shuffle and looping stay off and neither *)
(* skip nor play_selected is issued.                                       *)
(***************************************************************************)
QueueNext ==
    \/ TickBusy \/ TickQueue \/ TickSilence
    \/ Render
    \/ NoKey \/ KeyDown \/ KeyUp \/ KeyShiftEnter \/ KeySpace
    \/ SinkFinish

QueuePlayback == Init /\ [][QueueNext]_vars

(***************************************************************************)
(* C18. No queued track is lost: with shuffle and looping off and no skip  *)
(* or play_selected, every track queue_selected appended becomes           *)
(* now-playing. A track therefore leaves the queue only from the front, by *)
(* being handed to the sink and becoming now-playing.                      *)
(***************************************************************************)
C18_QueuedTrackLeavesOnlyByPlaying ==
    [][ (Len(queue') < Len(queue) /\ pc' # "panic") =>
          /\ queue' = Tail(queue)
          /\ sink' = <<Head(queue)>>
          /\ playing' = Some(Head(queue)) ]_vars

(***************************************************************************)
(* C19. Whenever the sink occupancy is above 0, now-playing is Some:       *)
(* every hand-off sets now-playing, and now-playing is cleared only by a   *)
(* tick that finds both the sink and the queue empty.                      *)
(***************************************************************************)
C19_BusySinkHasPlaying ==
    [][ /\ Len(sink) > 0 => IsSome(playing)
        /\ Len(sink') > 0 => IsSome(playing')
        /\ (IsSome(playing) /\ playing' = None) =>
              (pc = "tick" /\ sink = <<>> /\ queue = <<>> /\ sink' = <<>>) ]_vars

\* Two tracks are pending in the sink and now-playing is set.
C19_Witness ==
    /\ last.op = "tick_busy" /\ pc = "render"
    /\ Len(sink) = 2 /\ IsSome(playing)

(***************************************************************************)
(* C20. Every track handed to the sink, by a tick under any policy or by   *)
(* play_selected, is an entry of the catalog; a shuffle tick with          *)
(* now-playing None and a catalog of 0 or 1 entries hands the sink no      *)
(* name, the empty name included.                                          *)
(***************************************************************************)
InCatalog(song) == \E i \in 1 .. Len(songs_items) : songs_items[i] = song

C20_SinkHoldsCatalogTracks ==
    [][ /\ \A i \in 1 .. Len(sink) : InCatalog(sink[i])
        /\ \A i \in 1 .. Len(sink') : InCatalog(sink'[i])
        /\ (pc = "draw" /\ previous_or_to_play = "" /\ Len(songs_items) <= 1) =>
              sink' = sink ]_vars

\* The shuffle branch ran with now-playing None on a one-entry catalog: play
\* was called with the empty name, nothing reached the sink, the loop is over.
C20_Witness ==
    /\ last.op = "shuffle" /\ pc = "panic"
    /\ Len(songs_items) = 1 /\ playing = None /\ sink = <<>>

====
